---- MODULE Spec2Model ----
(***************************************************************************)
(* A state-machine model of the leptosfmt command line (cli/src/main.rs):  *)
(* settings resolution with config discovery, glob expansion, the rayon    *)
(* fork-join over the expansion's entries, and the summary.                *)
(***************************************************************************)
EXTENDS Naturals, Sequences, FiniteSets, TLC

\* ------------------------------------------------------------------ bounds
MaxDepth == 2
MaxFiles == 3
MaxChanges == 1
MaxAccepted == 1
MaxFaulty == 1

\* ------------------------------------------------------------ plain values
\* Option<T>: None is the empty sequence, Some(v) the sequence of v.
None == <<>>
Some(v) == <<v>>
ConfigName == "leptosfmt.toml"
ExplicitPath == "custom.toml"

DirName(k) == "d" \o ToString(k)

\* The working directory at depth d below the root; the root is <<>>.
CwdAt(d) == [k \in 1..d |-> DirName(k)]

RECURSIVE display(_)
\* Path::display: the components joined under the root "/".
display(p) == IF p = <<>> THEN "" ELSE display(SubSeq(p, 1, Len(p) - 1)) \o "/" \o p[Len(p)]

ProbeResults == {"file", "absent", "error"}
Contents == {"toml", "malformed", "unreadable"}
\* What format_file does with a path that exists: "unreadable" is its io error for
\* an unreadable directory.
EngineResults == {"text", "error", "unreadable", "panic_string", "panic_str"}
\* A file's content, in blocks: the text before the run, and the text format_file
\* returns, which is one block longer than any write that fails part-way accepts.
OriginalText == <<"original">>
\* What another process writes into a file.
ForeignText == <<"foreign">>
FormattedText == [k \in 1..(MaxAccepted + 1) |-> "formatted" \o ToString(k)]

\* What fs::write meets: success, a refused open, or a size limit of k blocks, under
\* which the write fails after the open once k blocks have been accepted.
Limit(k) == "limit" \o ToString(k)
Limits == {Limit(k) : k \in 0..MaxAccepted}
Accepted(d) == CHOOSE k \in 0..MaxAccepted : d = Limit(k)
Disks == {"writable", "readonly"} \cup Limits
Inputs == {"src", "src/*.rs", "a[", "d[", "missing.rs"}

RECURSIVE Nest(_)
Nest(i) == IF i <= 1 THEN "" ELSE Nest(i - 1) \o "m" \o ToString(i) \o "/"

\* The i-th candidate, a file or an unreadable directory named like a source file,
\* lies i-1 directories below src.
FilePath(i) == "src/" \o Nest(i) \o "f" \o ToString(i) \o ".rs"
Candidates == {FilePath(i) : i \in 1..MaxFiles}

Line(k, p, m, n) == [kind |-> k, path |-> p, msg |-> m, n |-> n]

VARIABLES
    args,              \* Args: input_pattern, max_width, tab_spaces, config_file
    cwd,               \* env::current_dir(): [ok, path]
    tomlAt,            \* what is named leptosfmt.toml in the ancestor at each depth
    explicitContent,   \* the content of the --config-file file
    discoveredContent, \* the content of a leptosfmt.toml
    fsEntries,         \* the candidate tree: files and unreadable directories, sorted
    engine,            \* what format_file does for each candidate
    disk,              \* whether fs::write succeeds for each candidate
    budget,            \* the changes other processes still make during the batch
    created,           \* the source files another process has added since the glob
    absent,            \* the candidates that do not exist now
    foreign,           \* the candidates another process has removed or rewritten
    pc,                \* main's position
    path,              \* find_config's PathBuf
    probed,            \* the paths find_config has tested with is_file, in order
    discovered,        \* find_config's result, displayed
    settings,          \* main's settings
    glob_pattern,      \* main's glob_pattern
    file_paths,        \* main's file_paths
    total_files,       \* main's total_files
    leaves,            \* the runs of entries the parallel iterator was split into
    tasks,             \* one record per entry of file_paths
    files,             \* the content of each candidate file
    out                \* the lines printed to stdout and stderr, in order

fixedEnv == <<args, cwd, tomlAt, explicitContent, discoveredContent, fsEntries, engine, disk>>
othersVars == <<budget, created, absent, foreign>>
envVars == <<fixedEnv, othersVars>>
cfgVars == <<path, probed, discovered, settings>>
batchVars == <<glob_pattern, file_paths, total_files, leaves, tasks, files>>
vars == <<envVars, cfgVars, batchVars, pc, out>>

\* ------------------------------------------------------------- settings
\* FormatterSettings::default(): the library's built-in values.
DefaultSettings == [max_width |-> 100, tab_spaces |-> 4]
\* What a well-formed config file of each origin deserializes to.
ExplicitSettings == [max_width |-> 90, tab_spaces |-> 3]
DiscoveredSettings == [max_width |-> 80, tab_spaces |-> 2]

\* PathBuf::push of a relative component.
push(p, name) == Append(p, name)

\* PathBuf::pop: truncate to the parent; false and no change when there is none.
pop(p) == IF p = <<>> THEN [ok |-> FALSE, path |-> p]
          ELSE [ok |-> TRUE, path |-> SubSeq(p, 1, Len(p) - 1)]

is_file_or_error(p) == /\ Len(p) >= 1
                       /\ p[Len(p)] = ConfigName
                       /\ Len(p) - 1 \in DOMAIN tomlAt
                       /\ tomlAt[Len(p) - 1] # "absent"

\* Path::is_file: true only for an existing regular file; errors read as false.
is_file(p) == /\ Len(p) >= 1
              /\ p[Len(p)] = ConfigName
              /\ Len(p) - 1 \in DOMAIN tomlAt
              /\ tomlAt[Len(p) - 1] = "file"

walk_up_one_pop(p) == pop(p)

walk_up_three_pops(p) ==
    LET r1 == pop(p)
        r2 == IF r1.ok THEN pop(r1.path) ELSE r1
    IN IF r2.ok THEN pop(r2.path) ELSE r2

\* path.pop() && path.pop(): the second pop runs only when the first succeeded.
walk_up(p) ==
    LET r1 == pop(p) IN
    IF r1.ok THEN pop(r1.path) ELSE r1

runs_find_config_eager(a) == TRUE

\* args.config_file.clone().or_else(find_config): find_config runs only for None.
runs_find_config(a) == a.config_file = None

\* The Option the or_else yields.
config_path(a, found) == IF a.config_file # None THEN a.config_file ELSE found

read_config_or_default(p) ==
    LET content == IF p = ExplicitPath THEN explicitContent ELSE discoveredContent
        value == IF p = ExplicitPath THEN ExplicitSettings ELSE DiscoveredSettings
    IN [ok |-> TRUE, value |-> IF content = "toml" THEN value ELSE DefaultSettings, msg |-> ""]

\* fs::read_to_string(config_file).map(|s| toml::from_str(&s))??
read_config(p) ==
    LET content == IF p = ExplicitPath THEN explicitContent ELSE discoveredContent
        value == IF p = ExplicitPath THEN ExplicitSettings ELSE DiscoveredSettings
    IN CASE content = "toml" -> [ok |-> TRUE, value |-> value, msg |-> ""]
         [] content = "malformed" -> [ok |-> FALSE, value |-> DefaultSettings, msg |-> "TOML parse error"]
         [] OTHER -> [ok |-> FALSE, value |-> DefaultSettings, msg |-> "No such file or directory"]

overrides_ignored(base, a) == base

\* lines 89-95: each supplied override replaces its own field.
overrides(base, a) ==
    [max_width |-> IF a.max_width # None THEN a.max_width[1] ELSE base.max_width,
     tab_spaces |-> IF a.tab_spaces # None THEN a.tab_spaces[1] ELSE base.tab_spaces]

\* fn settings, given what the or_else yielded.
settings_of(a, cfg) ==
    LET base == IF cfg # None THEN read_config(cfg[1])
                ELSE [ok |-> TRUE, value |-> DefaultSettings, msg |-> ""]
    IN IF base.ok THEN [ok |-> TRUE, value |-> overrides(base.value, a), msg |-> ""]
       ELSE base

\* ------------------------------------------------------------- expansion
\* fs::metadata(&args.input_pattern).map(|meta| meta.is_dir()).unwrap_or(false)
is_dir(input) == input \in {"src", "d["}

glob_pattern_shallow(input) == IF is_dir(input) THEN input \o "/*.rs" ELSE input

\* lines 47-51
glob_pattern_of(input) == IF is_dir(input) THEN input \o "/**/*.rs" ELSE input

pattern_always_valid(p) == TRUE

pattern_valid_if_matching(p) == p \notin {"a[", "d[", "d[/**/*.rs", "missing.rs"}

\* glob::Pattern::new rejects an unclosed character class.
pattern_valid(p) == p \notin {"a[", "d[", "d[/**/*.rs"}

\* The candidate tree as it is now: the candidates and the files added since,
\* without those removed.
NewPath(k) == "src/new" \o ToString(k) \o ".rs"
tree == fsEntries \o [k \in 1..created |-> [kind |-> "file", path |-> NewPath(k)]]
present == SelectSeq(tree, LAMBDA e : e.path \notin absent)

\* What the iterator yields at one entry of the tree under a pattern that descends:
\* a file is a path; a directory named like a source file is a path and then,
\* when the iterator fails to read it, a GlobError with that path.
Yield(e) ==
    IF e.kind = "file" THEN <<[kind |-> "path", path |-> e.path]>>
    ELSE <<[kind |-> "path", path |-> e.path], [kind |-> "glob_error", path |-> e.path]>>

RECURSIVE Walk(_)
Walk(t) == IF t = <<>> THEN <<>> ELSE Yield(Head(t)) \o Walk(Tail(t))

\* The entries directly under src, which a pattern that does not descend only names.
Top(e) == e.path = FilePath(1) \/ \E k \in 1..created : e.path = NewPath(k)
Named(t) == [k \in 1..Len(t) |-> [kind |-> "path", path |-> t[k].path]]

\* The glob iterator, collected: the entries of the candidate tree the pattern matches.
glob(p) ==
    CASE p = "src/**/*.rs" -> Walk(present)
      [] p = "src/*.rs" -> Named(SelectSeq(present, Top))
      [] p = "src" -> <<[kind |-> "path", path |-> "src"]>>
      [] OTHER -> <<>>

RECURSIVE Leaves(_, _, _)
\* The ways the parallel iterator splits the entries lo..hi into sequential runs: a
\* range of two or more splits at its middle, the whole batch always (the splitter
\* starts with one split per thread), a part of it when the threads and the work
\* stolen allow; a run that is not split is one leaf.
Leaves(lo, hi, must) ==
    IF hi < lo THEN {{}}
    ELSE IF hi = lo THEN {{<<lo, hi>>}}
    ELSE LET mid == lo + ((hi - lo + 1) \div 2)
             split == {l \cup r : l \in Leaves(lo, mid - 1, FALSE), r \in Leaves(mid, hi, FALSE)}
         IN IF must THEN split ELSE split \cup {{<<lo, hi>>}}

\* ----------------------------------------------------------------- tasks
\* A task's record: its position, its error, and what it has done: the settings its
\* engine call received, its engine calls, its writes, and the places in out of the
\* per-file lines it printed.
NewTask == [st |-> "pending", msg |-> "", seen |-> None, calls |-> 0, writes |-> 0, lines |-> <<>>]

\* format_file(file, settings): it reads the file, so a path that does not exist
\* now is an error; so is a path that is no candidate (a directory).
format_file(file) ==
    IF file \in absent THEN "missing"
    ELSE IF file \in Candidates THEN engine[file] ELSE "error"

caught_errors_as_text(res) ==
    CASE res = "text" -> [tag |-> "ok", msg |-> ""]
      [] res = "error" -> [tag |-> "ok", msg |-> ""]
      [] res = "unreadable" -> [tag |-> "ok", msg |-> ""]
      [] res = "missing" -> [tag |-> "ok", msg |-> ""]
      [] res = "panic_string" -> [tag |-> "err", msg |-> "index out of bounds"]
      [] OTHER -> [tag |-> "unwind", msg |-> ""]

\* lines 119-120: catch_unwind, the payload downcast to String and unwrapped, then ??.
\* A payload that is no String makes the unwrap panic outside catch_unwind.
caught(res) ==
    CASE res = "text" -> [tag |-> "ok", msg |-> ""]
      [] res = "error" -> [tag |-> "err", msg |-> "unexpected token"]
      [] res = "unreadable" -> [tag |-> "err", msg |-> "Permission denied"]
      [] res = "missing" -> [tag |-> "err", msg |-> "No such file or directory"]
      [] res = "panic_string" -> [tag |-> "err", msg |-> "index out of bounds"]
      [] OTHER -> [tag |-> "unwind", msg |-> ""]

settings_rebuilt(i) == Some(DefaultSettings)

\* line 66: every task passes main's settings, by value, to format_glob_result.
settings_for(i) == settings

written_or_panic(d) ==
    IF d = "writable" THEN [tag |-> "ok", msg |-> ""] ELSE [tag |-> "unwind", msg |-> ""]

written_ignoring_error(d) == [tag |-> "ok", msg |-> ""]

\* line 121: fs::write(file, formatted)?: an io error becomes the task's error.
written(d) ==
    CASE d = "writable" -> [tag |-> "ok", msg |-> ""]
      [] d = "readonly" -> [tag |-> "err", msg |-> "Permission denied"]
      [] OTHER -> [tag |-> "err", msg |-> "File too large"]

\* line 121: fs::write opens the file with truncation and then writes the text in
\* a loop: a refused open leaves the content, a write that fails after the open
\* leaves the blocks of the text accepted before it.
content_after_write(d, old) ==
    CASE d = "writable" -> FormattedText
      [] d = "readonly" -> old
      [] OTHER -> SubSeq(FormattedText, 1, Accepted(d))

\* line 121: File::create makes the file when it is missing, unless the open is
\* refused.
absent_after_write(d, f) == IF d = "readonly" THEN absent ELSE absent \ {f}

\* The run of entries the i-th entry belongs to. The entries of a run are consumed
\* in order by one thread: an entry starts when it is the first of its run or the
\* one before it has been dealt with.
LeafOf(i) == CHOOSE l \in leaves : l[1] <= i /\ i <= l[2]
first_in_leaf(i) == LeafOf(i)[1] = i
may_start(i) == IF first_in_leaf(i) THEN TRUE ELSE tasks[i - 1].st = "done"

Terminal == {"done", "unwound", "skipped"}

summary_count_reglob == Len(glob(glob_pattern))

\* line 76: the summary prints total_files, taken at line 57 before the dispatch.
summary_count == total_files

join_skipped == TRUE

\* for_each returns once every item has been run, has unwound or was dropped.
join_complete == \A i \in DOMAIN tasks : tasks[i].st \in Terminal

\* ---------------------------------------------------------------- actions
\* settings(): the or_else decides whether find_config runs.
SettingsBegin ==
    /\ pc = "start"
    /\ IF runs_find_config(args)
       THEN IF cwd.ok
            THEN /\ path' = cwd.path
                 /\ pc' = "find_config"
            ELSE /\ pc' = "load"          \* env::current_dir().ok()? yields None
                 /\ UNCHANGED path
       ELSE /\ pc' = "load"
            /\ UNCHANGED path
    /\ UNCHANGED <<envVars, probed, discovered, settings, batchVars, out>>

\* One iteration of find_config's loop.
FindConfigStep ==
    /\ pc = "find_config"
    /\ Len(probed) <= MaxDepth + 2
    /\ LET p1 == push(path, ConfigName) IN
       /\ probed' = Append(probed, p1)
       /\ IF is_file(p1)
          THEN /\ out' = Append(out, Line("notice", display(p1), "", 0))
               /\ discovered' = Some(display(p1))
               /\ path' = p1
               /\ pc' = "load"
          ELSE LET r == walk_up(p1) IN
               /\ path' = r.path
               /\ pc' = IF r.ok THEN "find_config" ELSE "load"
               /\ UNCHANGED <<discovered, out>>
    /\ UNCHANGED <<envVars, settings, batchVars>>

\* The rest of settings() and main's match on its result.
LoadSettings ==
    /\ pc = "load"
    /\ LET r == settings_of(args, config_path(args, discovered)) IN
       IF r.ok
       THEN /\ settings' = Some(r.value)
            /\ pc' = "expand"
            /\ UNCHANGED out
       ELSE /\ out' = Append(out, Line("error", "", r.msg, 0))
            /\ pc' = "returned"
            /\ UNCHANGED settings
    /\ UNCHANGED <<envVars, path, probed, discovered, batchVars>>

\* lines 43-59: the pattern, the glob and its collection; into_par_iter splits
\* the entries into runs.
Expand ==
    /\ pc = "expand"
    /\ LET gp == glob_pattern_of(args.input_pattern) IN
       /\ glob_pattern' = gp
       /\ IF pattern_valid(gp)
          THEN /\ file_paths' = glob(gp)
               /\ total_files' = Len(glob(gp))
               /\ tasks' = [i \in 1..Len(glob(gp)) |-> NewTask]
               /\ leaves' \in Leaves(1, Len(glob(gp)), TRUE)
               /\ pc' = "for_each"
          ELSE /\ pc' = "glob_panic"      \* expect("failed to read glob pattern")
               /\ UNCHANGED <<file_paths, total_files, tasks, leaves>>
    /\ UNCHANGED <<envVars, cfgVars, files, out>>

\* lines 70 and 61: an entry that is a GlobError; print_err's println!.
ReportEnumError(i) ==
    /\ pc = "for_each"
    /\ tasks[i].st = "pending"
    /\ may_start(i)
    /\ file_paths[i].kind = "glob_error"
    /\ out' = Append(out, Line("fail", file_paths[i].path, "", 0))
    /\ tasks' = [tasks EXCEPT ![i] = [@ EXCEPT !.st = "head_printed",
                                               !.msg = "Permission denied",
                                               !.lines = Append(@, Len(out) + 1)]]
    /\ UNCHANGED <<envVars, cfgVars, glob_pattern, file_paths, total_files, leaves, files, pc>>

\* lines 66 and 119-120: format_file under catch_unwind.
InvokeEngine(i) ==
    /\ pc = "for_each"
    /\ tasks[i].st = "pending"
    /\ may_start(i)
    /\ file_paths[i].kind = "path"
    /\ LET r == caught(format_file(file_paths[i].path)) IN
       tasks' = [tasks EXCEPT ![i] =
                   [@ EXCEPT !.st = CASE r.tag = "ok" -> "formatted"
                                      [] r.tag = "err" -> "failed"
                                      [] OTHER -> "unwound",
                             !.msg = r.msg,
                             !.seen = settings_for(i),
                             !.calls = @ + 1]]
    /\ UNCHANGED <<envVars, cfgVars, glob_pattern, file_paths, total_files, leaves, files, pc, out>>

\* line 121: fs::write(file, formatted)?
WriteBack(i) ==
    /\ pc = "for_each"
    /\ tasks[i].st = "formatted"
    /\ LET f == file_paths[i].path
           r == written(disk[f])
       IN /\ files' = [files EXCEPT ![f] = content_after_write(disk[f], @)]
          /\ absent' = absent_after_write(disk[f], f)
          /\ tasks' = [tasks EXCEPT ![i] =
                         [@ EXCEPT !.st = CASE r.tag = "ok" -> "written"
                                            [] r.tag = "err" -> "failed"
                                            [] OTHER -> "unwound",
                                   !.msg = r.msg,
                                   !.writes = @ + 1]]
    /\ UNCHANGED <<fixedEnv, budget, created, foreign, cfgVars, glob_pattern, file_paths,
                   total_files, leaves, pc, out>>

\* lines 67-68 and 61: the status line of a path entry; for an Err it is
\* print_err's println!, and the diagnostic is still to come.
PrintStatus(i) ==
    /\ pc = "for_each"
    /\ tasks[i].st \in {"written", "failed"}
    /\ out' = Append(out, IF tasks[i].st = "written"
                          THEN Line("ok", file_paths[i].path, "", 0)
                          ELSE Line("fail", file_paths[i].path, "", 0))
    /\ tasks' = [tasks EXCEPT ![i] =
                    [@ EXCEPT !.st = IF tasks[i].st = "written" THEN "done" ELSE "head_printed",
                              !.lines = Append(@, Len(out) + 1)]]
    /\ UNCHANGED <<envVars, cfgVars, glob_pattern, file_paths, total_files, leaves, files, pc>>

\* line 62: print_err's eprintln!, a statement of its own: the lines of other
\* tasks can lie between a path's line and its diagnostic, which names no path.
PrintErrDiagnostic(i) ==
    /\ pc = "for_each"
    /\ tasks[i].st = "head_printed"
    /\ out' = Append(out, Line("diag", "", tasks[i].msg, 0))
    /\ tasks' = [tasks EXCEPT ![i].st = "done"]
    /\ UNCHANGED <<envVars, cfgVars, glob_pattern, file_paths, total_files, leaves, files, pc>>

\* A panic unwinds through the sequential run of entries it occurred in: the entry
\* that follows, in that run, one that has unwound or was dropped is dropped. The
\* other runs are unaffected: the join runs both of its halves.
Abandon(i) ==
    /\ pc = "for_each"
    /\ tasks[i].st = "pending"
    /\ ~first_in_leaf(i)
    /\ tasks[i - 1].st \in {"unwound", "skipped"}
    /\ tasks' = [tasks EXCEPT ![i].st = "skipped"]
    /\ UNCHANGED <<envVars, cfgVars, glob_pattern, file_paths, total_files, leaves, files, pc, out>>

\* lines 72-79: for_each returns or resumes the panic; the summary; main returns.
Join ==
    /\ pc = "for_each"
    /\ join_complete
    /\ IF \E j \in DOMAIN tasks : tasks[j].st = "unwound"
       THEN /\ pc' = "batch_panic"     \* the panic resumes in main: no summary
            /\ UNCHANGED out
       ELSE /\ out' = Append(out, Line("summary", "", "", summary_count))
            /\ pc' = "done"
    /\ UNCHANGED <<envVars, cfgVars, batchVars>>

\* The candidates that are files.
CandidateFiles == {fsEntries[k].path : k \in {j \in DOMAIN fsEntries : fsEntries[j].kind = "file"}}

\* Another process adds a source file to the tree while the batch runs.
FsCreate ==
    /\ pc = "for_each"
    /\ budget > 0
    /\ budget' = budget - 1
    /\ created' = created + 1
    /\ UNCHANGED <<fixedEnv, absent, foreign, cfgVars, batchVars, pc, out>>

\* Another process removes a candidate file while the batch runs.
FsRemove(f) ==
    /\ pc = "for_each"
    /\ budget > 0
    /\ f \in CandidateFiles \ absent
    /\ budget' = budget - 1
    /\ absent' = absent \cup {f}
    /\ foreign' = foreign \cup {f}
    /\ files' = [files EXCEPT ![f] = <<>>]
    /\ UNCHANGED <<fixedEnv, created, cfgVars, glob_pattern, file_paths, total_files, leaves,
                   tasks, pc, out>>

\* Another process rewrites a candidate file while the batch runs.
FsRewrite(f) ==
    /\ pc = "for_each"
    /\ budget > 0
    /\ f \in CandidateFiles \ absent
    /\ budget' = budget - 1
    /\ foreign' = foreign \cup {f}
    /\ files' = [files EXCEPT ![f] = ForeignText]
    /\ UNCHANGED <<fixedEnv, created, absent, cfgVars, glob_pattern, file_paths, total_files,
                   leaves, tasks, pc, out>>

Next ==
    \/ SettingsBegin
    \/ FindConfigStep
    \/ LoadSettings
    \/ Expand
    \/ \E i \in DOMAIN tasks : ReportEnumError(i)
    \/ \E i \in DOMAIN tasks : InvokeEngine(i)
    \/ \E i \in DOMAIN tasks : WriteBack(i)
    \/ \E i \in DOMAIN tasks : PrintStatus(i)
    \/ \E i \in DOMAIN tasks : PrintErrDiagnostic(i)
    \/ \E i \in DOMAIN tasks : Abandon(i)
    \/ Join
    \/ FsCreate
    \/ \E f \in Candidates : FsRemove(f)
    \/ \E f \in Candidates : FsRewrite(f)

\* ------------------------------------------------------------ initial states
Overrides(w, t) == {[input_pattern |-> inp, max_width |-> mw, tab_spaces |-> ts, config_file |-> cf] :
                       inp \in Inputs, mw \in w, ts \in t, cf \in {None, Some(ExplicitPath)}}

\* A candidate with what the engine and the disk do for it. format_file cannot
\* read an unreadable directory and reads every file; only formatted text reaches
\* the disk.
Candidate(k, e, d) == [kind |-> k, engine |-> e, disk |-> d]
Plain == Candidate("file", "text", "writable")
FaultyCandidates ==
    {Candidate("dir", "unreadable", "writable")}
    \cup {Candidate("file", e, "writable") : e \in {"error", "panic_string", "panic_str"}}
    \cup {Candidate("file", "text", d) : d \in Disks \ {"writable"}}

\* The candidate trees of n entries, in the iterator's (sorted) order.
EntriesOf(n) == [1..n -> {Plain} \cup FaultyCandidates]
Entries(k) == [i \in 1..Len(k) |-> [kind |-> k[i].kind, path |-> FilePath(i)]]
EngineOf(k) == [f \in Candidates |->
                   IF \E i \in 1..Len(k) : f = FilePath(i)
                   THEN k[CHOOSE i \in 1..Len(k) : f = FilePath(i)].engine ELSE "text"]
DiskOf(k) == [f \in Candidates |->
                 IF \E i \in 1..Len(k) : f = FilePath(i)
                 THEN k[CHOOSE i \in 1..Len(k) : f = FilePath(i)].disk ELSE "writable"]
FaultsOf(k) == Cardinality({i \in 1..Len(k) : k[i] # Plain})

InitProgram ==
    /\ pc = "start"
    /\ created = 0
    /\ absent = {}
    /\ foreign = {}
    /\ path = <<>>
    /\ probed = <<>>
    /\ discovered = None
    /\ settings = None
    /\ glob_pattern = ""
    /\ file_paths = <<>>
    /\ total_files = 0
    /\ leaves = {}
    /\ tasks = <<>>
    /\ files = [f \in Candidates |-> OriginalText]
    /\ out = <<>>

\* Every batch up to MaxFiles candidates of which up to MaxFaulty are not plain,
\* under a working directory one level deep with a leptosfmt.toml at the root.
\* An unreadable directory stands at any place among plain files, and other
\* processes change the tree of a batch of plain candidates.
Init ==
    /\ InitProgram
    /\ args \in {a \in Overrides({None}, {None}) : a.config_file = None}
    /\ cwd = [ok |-> TRUE, path |-> CwdAt(1)]
    /\ tomlAt = [d \in 0..1 |-> IF d = 0 THEN "file" ELSE "absent"]
    /\ explicitContent = "unreadable"
    /\ discoveredContent = "toml"
    /\ \E n \in 0..MaxFiles : \E k \in EntriesOf(n) :
          /\ FaultsOf(k) <= MaxFaulty
          /\ \A i, j \in 1..n : (k[i].kind = "dir" /\ j # i) => k[j] = Plain
          /\ fsEntries = Entries(k)
          /\ engine = EngineOf(k)
          /\ disk = DiskOf(k)
          /\ budget \in 0..(IF FaultsOf(k) = 0 THEN MaxChanges ELSE 0)

Spec == Init /\ [][Next]_vars

\* Every configuration environment, over a batch whose second candidate's panic
\* escapes its task and a batch that begins with an unreadable directory.
InitConfig ==
    /\ InitProgram
    /\ args \in {a \in Overrides({None, Some(120)}, {None, Some(8)}) : a.input_pattern = "src"}
    /\ \/ cwd = [ok |-> FALSE, path |-> <<>>] /\ tomlAt = [d \in 0..0 |-> "absent"]
       \/ \E d \in 0..MaxDepth : /\ cwd = [ok |-> TRUE, path |-> CwdAt(d)]
                                 /\ tomlAt \in [0..d -> ProbeResults]
    /\ explicitContent \in Contents
    /\ discoveredContent \in Contents
    /\ (args.config_file = None => explicitContent = "unreadable")
    /\ ((\A d \in DOMAIN tomlAt : tomlAt[d] # "file") => discoveredContent = "unreadable")
    /\ \E k \in {<<Plain, Candidate("file", "panic_str", "writable"), Plain>>,
                 <<Candidate("dir", "unreadable", "writable"), Plain>>} :
          /\ fsEntries = Entries(k)
          /\ engine = EngineOf(k)
          /\ disk = DiskOf(k)
    /\ budget \in 0..MaxChanges
    /\ budget > 0 => (fsEntries[1].kind = "file" /\ cwd.ok /\ Len(cwd.path) = 0)

SpecConfig == InitConfig /\ [][Next]_vars

\* ------------------------------------------------------------- observations
PerFileKinds == {"ok", "fail"}
CountKind(k) == Cardinality({j \in 1..Len(out) : out[j].kind = k})
PerFileLines == {j \in 1..Len(out) : out[j].kind \in PerFileKinds}
\* The places in out of the per-file lines the task of the i-th entry printed.
LinesOf(i) == {tasks[i].lines[k] : k \in DOMAIN tasks[i].lines}
\* The diagnostics with message m, and whether one follows line j.
DiagLines(m) == {k \in 1..Len(out) : out[k] = Line("diag", "", m, 0)}
DiagAfter(j, m) == \E k \in DiagLines(m) : j < k
\* Every candidate file another process has left alone holds its pre-run content.
Untouched == \A f \in Candidates \ foreign : files[f] = OriginalText
NoBatchEffects ==
    /\ file_paths = <<>>
    /\ tasks = <<>>
    /\ \A f \in Candidates : files[f] = OriginalText
    /\ PerFileLines = {}
    /\ CountKind("diag") = 0
    /\ CountKind("summary") = 0

PathEntry(p) == [kind |-> "path", path |-> p]
\* What the engine does for the path of the i-th entry when it reads it as it was
\* before the run, and whether another process had removed it before it was read.
EngineResult(i) ==
    IF file_paths[i].path \in Candidates THEN engine[file_paths[i].path] ELSE "error"
Removed(i) == tasks[i].msg = "No such file or directory"
\* The entry ends in failure: an enumeration error, an engine error or panic, a
\* file removed before the engine read it, or a write-back failure.
EndsInFailure(i) ==
    \/ file_paths[i].kind = "glob_error"
    \/ EngineResult(i) # "text"
    \/ Removed(i)
    \/ disk[file_paths[i].path] # "writable"
EnginePanics(i) ==
    /\ file_paths[i].kind = "path"
    /\ EngineResult(i) \in {"panic_string", "panic_str"}
    /\ ~Removed(i)
BatchEnded == pc \in {"done", "batch_panic"}
Dispatched == pc \in {"for_each", "done", "batch_panic"}
\* A step of the batch itself: of one of its tasks, or the join.
BatchStep ==
    \/ \E i \in DOMAIN tasks :
          \/ ReportEnumError(i)
          \/ InvokeEngine(i)
          \/ WriteBack(i)
          \/ PrintStatus(i)
          \/ PrintErrDiagnostic(i)
          \/ Abandon(i)
    \/ Join

\* The directories among the candidates, and the entries a descending pattern gives
\* for the tree as it was before the batch: the paths of the candidates of every
\* depth, in the tree's order, as path entries, and after the path entry of each
\* unreadable directory, and nowhere else, the enumeration error of that directory.
Dirs == {fsEntries[k].path : k \in {j \in DOMAIN fsEntries : fsEntries[j].kind = "dir"}}
PathEntries == SelectSeq(file_paths, LAMBDA e : e.kind = "path")
EntriesOfEveryDepth ==
    /\ Len(PathEntries) = Len(fsEntries)
    /\ \A k \in DOMAIN fsEntries : PathEntries[k] = PathEntry(fsEntries[k].path)
    /\ Len(file_paths) = Len(fsEntries) + Cardinality(Dirs)
    /\ \A i \in DOMAIN file_paths :
          /\ file_paths[i].kind = "glob_error" =>
                /\ file_paths[i].path \in Dirs
                /\ i > 1
                /\ file_paths[i - 1] = PathEntry(file_paths[i].path)
          /\ (file_paths[i].kind = "path" /\ file_paths[i].path \in Dirs) =>
                /\ i < Len(file_paths)
                /\ file_paths[i + 1] = [kind |-> "glob_error", path |-> file_paths[i].path]

\* ------------------------------------------------------------------- C1
\* C1: a task whose engine invocation terminates abnormally, whatever the payload,
\* becomes a Failure for its path; the panic leaves no task unwound or dropped and
\* never ends the batch.
C1_PanicIsolation ==
    /\ \A i \in DOMAIN tasks :
          /\ tasks[i].st \notin {"unwound", "skipped"}
          /\ (EnginePanics(i) /\ tasks[i].calls = 1) =>
                tasks[i].st \in {"failed", "head_printed", "done"}
          /\ (EnginePanics(i) /\ tasks[i].st = "done") =>
                \E j \in LinesOf(i) :
                    /\ out[j] = Line("fail", file_paths[i].path, "", 0)
                    /\ DiagAfter(j, tasks[i].msg)
    /\ pc # "batch_panic"

\* ------------------------------------------------------------------- C2
\* C2: when the batch has ended, every entry has exactly one per-file line of its
\* own, the failure lines are those of the entries that end in failure, and the
\* summary carries the number of entries.
C2_OutcomeAccounting ==
    BatchEnded =>
        /\ Cardinality(PerFileLines) = Len(file_paths)
        /\ \A i \in DOMAIN file_paths :
              /\ Len(tasks[i].lines) = 1
              /\ out[tasks[i].lines[1]] =
                    Line(IF EndsInFailure(i) THEN "fail" ELSE "ok", file_paths[i].path, "", 0)
        /\ \A i, j \in DOMAIN file_paths : i # j => LinesOf(i) \cap LinesOf(j) = {}
        /\ CountKind("fail") = Cardinality({i \in DOMAIN file_paths : EndsInFailure(i)})
        /\ CountKind("ok") = Cardinality({i \in DOMAIN file_paths : ~EndsInFailure(i)})
        /\ \E j \in 1..Len(out) : out[j].kind = "summary" /\ out[j].n = Len(file_paths)

\* ------------------------------------------------------------------- C3
\* C3: a summary line is the last line printed, every task has printed its line,
\* and every failure its diagnostic, before it, and it is printed once.
C3_SummaryLast ==
    \A k \in 1..Len(out) :
        out[k].kind = "summary" =>
            /\ k = Len(out)
            /\ \A i \in DOMAIN tasks :
                  /\ tasks[i].st = "done"
                  /\ LinesOf(i) # {}
                  /\ \A j \in LinesOf(i) : j < k
            /\ Cardinality(PerFileLines) = Len(tasks)
            /\ CountKind("diag") = CountKind("fail")

C3_Witness ==
    /\ pc = "done"
    /\ Len(file_paths) = 3
    /\ CountKind("ok") = 2
    /\ CountKind("fail") = 1
    /\ out[Len(out)].kind = "summary"

\* ------------------------------------------------------------------- C4
\* The settings the config source alone gives: the explicit file, else the
\* discovered file, else the defaults.
BaseSettings ==
    IF args.config_file # None THEN ExplicitSettings
    ELSE IF discovered # None THEN DiscoveredSettings
    ELSE DefaultSettings
ResolvedBad ==
    \/ args.config_file # None /\ explicitContent # "toml"
    \/ args.config_file = None /\ discovered # None /\ discoveredContent # "toml"

\* C4: each field of the resolved Settings is its override when one is supplied and
\* the config source's value otherwise; resolution fails only on a bad config file.
C4_OverridePrecedence ==
    /\ settings # None =>
          /\ settings[1].max_width =
                IF args.max_width # None THEN args.max_width[1] ELSE BaseSettings.max_width
          /\ settings[1].tab_spaces =
                IF args.tab_spaces # None THEN args.tab_spaces[1] ELSE BaseSettings.tab_spaces
    /\ pc = "returned" => ResolvedBad

C4_Witness ==
    /\ settings = Some([max_width |-> 120, tab_spaces |-> 2])
    /\ args.config_file = None
    /\ discovered # None

\* ------------------------------------------------------------------- C5
\* C5: with --config-file given, find_config never runs (nothing probed, no notice,
\* nothing discovered), the settings come from the explicit file alone, and a bad
\* explicit file ends the run.
C5_ExplicitBypassesDiscovery ==
    args.config_file # None =>
        /\ probed = <<>>
        /\ path = <<>>
        /\ discovered = None
        /\ CountKind("notice") = 0
        /\ pc # "find_config"
        /\ settings # None => explicitContent = "toml"
        /\ (explicitContent # "toml" /\ pc \notin {"start", "load"}) => pc = "returned"

C5_Witness ==
    /\ args.config_file # None
    /\ cwd.ok
    /\ tomlAt[Len(cwd.path)] = "file"
    /\ discoveredContent = "toml"
    /\ explicitContent = "malformed"
    /\ pc = "returned"

\* ------------------------------------------------------------------- C6
\* C6: once a config path has resolved to an unreadable or malformed file, the run
\* has printed the error and returned: no expansion, no task, no write, no per-file
\* line and no summary, whatever the overrides.
C6_FatalConfigError ==
    (ResolvedBad /\ pc \notin {"start", "find_config", "load"}) =>
        /\ pc = "returned"
        /\ out[Len(out)].kind = "error"
        /\ settings = None
        /\ glob_pattern = ""
        /\ NoBatchEffects

C6_Witness ==
    /\ pc = "returned"
    /\ discovered # None
    /\ discoveredContent = "malformed"
    /\ args.max_width # None
    /\ args.tab_spaces # None

\* ------------------------------------------------------------------- C7
InvalidInput == args.input_pattern \in {"a[", "d["}

\* C7: with an input whose effective pattern is invalid the run never dispatches:
\* no task, no write, no per-file line, no summary; it ends in the expect's panic.
C7_FatalGlobError ==
    InvalidInput =>
        /\ NoBatchEffects
        /\ pc \notin {"for_each", "done", "batch_panic"}
        /\ glob_pattern # "" => pc = "glob_panic"

C7_Witness ==
    /\ pc = "glob_panic"
    /\ args.input_pattern = "d["
    /\ glob_pattern = "d[/**/*.rs"
    /\ settings # None

\* ------------------------------------------------------------------- C8
Depth == Len(cwd.path)
NoConfigAnywhere == \A d \in DOMAIN tomlAt : tomlAt[d] # "file"
Discovering == args.config_file = None /\ cwd.ok

\* C8: from depth D with no leptosfmt.toml in any ancestor, each iteration moves
\* one level up, so the loop makes at most D moves (D+1 probes), is never stuck, and
\* ends at the root with none.
C8_DiscoveryTermination ==
    (Discovering /\ NoConfigAnywhere) =>
        /\ Len(probed) <= Depth + 1
        /\ pc = "find_config" =>
              /\ Len(path) = Depth - Len(probed)
              /\ ENABLED FindConfigStep
        /\ pc \notin {"start", "find_config"} =>
              /\ Len(probed) = Depth + 1
              /\ path = <<>>
              /\ discovered = None
              /\ CountKind("error") = 0

C8_Witness ==
    /\ Discovering
    /\ NoConfigAnywhere
    /\ Depth = MaxDepth
    /\ pc = "load"
    /\ Len(probed) = Depth + 1
    /\ \E d \in DOMAIN tomlAt : tomlAt[d] = "error"

\* ------------------------------------------------------------------- C9
\* The k-th path find_config tests: leptosfmt.toml in the (k-1)-th ancestor.
ProbeAt(k) == Append(SubSeq(cwd.path, 1, Depth - (k - 1)), ConfigName)
ConfigDepths == {d \in 0..Depth : tomlAt[d] = "file"}
Nearest == CHOOSE d \in ConfigDepths : \A e \in ConfigDepths : e <= d

\* C9: the probes are the working directory and then each parent in turn, none
\* skipped or repeated; the result is the leptosfmt.toml of the nearest directory
\* that has one, else none after the root; the notice is printed once with a path
\* and never without.
C9_NearestMatch ==
    Discovering =>
        /\ \A k \in 1..Len(probed) :
              /\ k <= Depth + 1
              /\ probed[k] = ProbeAt(k)
              /\ k < Len(probed) => tomlAt[Depth - (k - 1)] # "file"
        /\ pc \notin {"start", "find_config"} =>
              IF ConfigDepths # {}
              THEN /\ discovered = Some(display(Append(SubSeq(cwd.path, 1, Nearest), ConfigName)))
                   /\ Len(probed) = Depth - Nearest + 1
                   /\ CountKind("notice") = 1
                   /\ out[1] = Line("notice", discovered[1], "", 0)
              ELSE /\ discovered = None
                   /\ Len(probed) = Depth + 1
                   /\ CountKind("notice") = 0
        /\ pc \in {"start", "find_config"} => CountKind("notice") = 0

C9_Witness ==
    /\ Discovering
    /\ Depth = 2
    /\ tomlAt[2] # "file"
    /\ tomlAt[1] = "file"
    /\ tomlAt[0] = "file"
    /\ pc = "load"
    /\ discovered = Some("/d1/leptosfmt.toml")
    /\ Len(probed) = 2

\* ------------------------------------------------------------------ C10
\* C10: a started batch is never aborted: until it has ended in the summary and
\* main's return, some step of the batch itself can be taken.
C10_BatchCompletes ==
    pc \in {"for_each", "done", "batch_panic"} =>
        \/ pc = "done" /\ out[Len(out)].kind = "summary"
        \/ pc = "for_each" /\ ENABLED BatchStep

\* ------------------------------------------------------------------ C11
\* The entry fails before any write: an enumeration error, an engine error or an
\* engine panic, or a file removed before the engine read it.
FailsBeforeWrite(i) ==
    \/ file_paths[i].kind = "glob_error"
    \/ EngineResult(i) # "text"
    \/ Removed(i)

\* C11: a file is written only by the task of its own path entry after the engine
\* returned text for it; an entry that fails before the write issues no write and
\* its file keeps its pre-run content (unless another process has changed it).
C11_FailedFilesUntouched ==
    /\ \A i \in DOMAIN tasks :
          FailsBeforeWrite(i) =>
              /\ tasks[i].writes = 0
              /\ tasks[i].st # "written"
              /\ file_paths[i].path \in Candidates \ foreign =>
                    files[file_paths[i].path] = OriginalText
    /\ \A f \in Candidates :
          (files[f] # OriginalText /\ files[f] # ForeignText /\ f \notin absent) =>
              \E i \in DOMAIN tasks :
                  /\ file_paths[i] = PathEntry(f)
                  /\ engine[f] = "text"
                  /\ tasks[i].calls = 1
                  /\ tasks[i].writes = 1
    /\ \A f \in Candidates \ foreign :
          files[f] # OriginalText =>
              \E i \in DOMAIN tasks : file_paths[i] = PathEntry(f) /\ tasks[i].writes = 1

C11_Witness ==
    /\ pc = "done"
    /\ Len(file_paths) = 2
    /\ file_paths[1].kind = "path"
    /\ engine[FilePath(1)] = "error"
    /\ tasks[1].st = "done"
    /\ DiagLines("unexpected token") # {}
    /\ files[FilePath(1)] = OriginalText
    /\ files[FilePath(2)] = FormattedText

WriteFails(i) ==
    /\ file_paths[i].kind = "path"
    /\ EngineResult(i) = "text"
    /\ ~Removed(i)
    /\ disk[file_paths[i].path] # "writable"
EscapingPanic(j) ==
    /\ file_paths[j].kind = "path"
    /\ EngineResult(j) = "panic_str"
    /\ ~Removed(j)

\* C13: a write-back failure, whether the open is refused or the write fails after
\* it, gives its task one Failure line with the io error after it and no success
\* line, never unwinds the task, is counted by the summary, and is no cause of a
\* dropped task or of an aborted batch.
C13_WriteFailurePerFile ==
    /\ \A i \in DOMAIN tasks :
          WriteFails(i) =>
              /\ tasks[i].st \notin {"written", "unwound"}
              /\ \A j \in LinesOf(i) : out[j] = Line("fail", file_paths[i].path, "", 0)
              /\ tasks[i].st = "done" =>
                    /\ Cardinality(LinesOf(i)) = 1
                    /\ \A j \in LinesOf(i) :
                          DiagAfter(j, IF disk[file_paths[i].path] = "readonly"
                                       THEN "Permission denied" ELSE "File too large")
    /\ \A i \in DOMAIN tasks :
          tasks[i].st = "skipped" =>
              \E j \in 1..(i - 1) : EscapingPanic(j) /\ LeafOf(j) = LeafOf(i)
    /\ pc = "batch_panic" => \E j \in DOMAIN tasks : EscapingPanic(j)
    /\ pc = "done" =>
          /\ \A i \in DOMAIN tasks : tasks[i].st = "done"
          /\ out[Len(out)] = Line("summary", "", "", Len(file_paths))

C13_Witness ==
    /\ pc = "done"
    /\ Len(file_paths) = 3
    /\ WriteFails(2)
    /\ disk[FilePath(2)] = Limit(1)
    /\ LeafOf(2) = LeafOf(3)
    /\ CountKind("ok") = 2
    /\ CountKind("fail") = 1
    /\ DiagLines("File too large") # {}
    /\ out[Len(out)] = Line("summary", "", "", 3)
    /\ files[FilePath(2)] = <<"formatted1">>
    /\ files[FilePath(3)] = FormattedText

\* ------------------------------------------------------------------ C14
\* C14: a success line is the one line of the task of a path entry whose engine
\* returned text and whose one write completed, so that its file holds exactly that
\* text (unless another process has changed it); in a task the engine comes first,
\* then the write, then the line, and no task prints two lines.
C14_SuccessMeansWritten ==
    /\ \A j \in 1..Len(out) :
          out[j].kind = "ok" =>
              \E i \in DOMAIN tasks :
                  /\ tasks[i].lines = <<j>>
                  /\ file_paths[i] = PathEntry(out[j].path)
                  /\ EngineResult(i) = "text"
                  /\ disk[out[j].path] = "writable"
                  /\ out[j].path \notin foreign => files[out[j].path] = FormattedText
                  /\ tasks[i].calls = 1
                  /\ tasks[i].writes = 1
                  /\ tasks[i].st = "done"
    /\ \A i \in DOMAIN tasks :
          /\ Len(tasks[i].lines) <= 1
          /\ \A j \in LinesOf(i) :
                /\ out[j].kind \in PerFileKinds
                /\ out[j].path = file_paths[i].path
          /\ tasks[i].writes <= tasks[i].calls
          /\ tasks[i].st = "pending" => tasks[i].calls = 0
          /\ tasks[i].st = "formatted" => tasks[i].calls = 1 /\ tasks[i].writes = 0
          /\ tasks[i].st = "written" =>
                /\ tasks[i].writes = 1
                /\ file_paths[i].path \notin foreign => files[file_paths[i].path] = FormattedText
          /\ tasks[i].st \notin {"head_printed", "done"} => tasks[i].lines = <<>>
          /\ tasks[i].st = "head_printed" => \A j \in LinesOf(i) : out[j].kind = "fail"
    /\ \A j \in PerFileLines : \E i \in DOMAIN tasks : j \in LinesOf(i)

\* An unreadable directory's two entries, each with its own failure line for the
\* one path, beside a success written before the other task's write.
C14_Witness ==
    /\ pc = "for_each"
    /\ Len(file_paths) = 4
    /\ file_paths[2] = [kind |-> "glob_error", path |-> FilePath(1)]
    /\ tasks[1].st = "done"
    /\ tasks[2].st = "done"
    /\ tasks[3].st = "done"
    /\ tasks[4].st = "formatted"
    /\ CountKind("ok") = 1
    /\ CountKind("fail") = 2
    /\ files[FilePath(2)] = FormattedText
    /\ files[FilePath(3)] = OriginalText

\* ------------------------------------------------------------------ C15
\* The value settings() resolves for the run.
ResolvedSettings ==
    [max_width |-> IF args.max_width # None THEN args.max_width[1] ELSE BaseSettings.max_width,
     tab_spaces |-> IF args.tab_spaces # None THEN args.tab_spaces[1] ELSE BaseSettings.tab_spaces]

\* C15: every engine invocation received the one value settings() resolved, and
\* main's settings still holds that value whatever tasks have run.
C15_OneSettingsValue ==
    /\ \A i \in DOMAIN tasks :
          tasks[i].calls > 0 =>
              /\ tasks[i].seen = Some(ResolvedSettings)
              /\ tasks[i].seen = settings
    /\ \A i, j \in DOMAIN tasks :
          (tasks[i].calls > 0 /\ tasks[j].calls > 0) => tasks[i].seen = tasks[j].seen
    /\ pc \in {"expand", "for_each", "done", "batch_panic"} => settings = Some(ResolvedSettings)

C15_Witness ==
    /\ Len(tasks) = 3
    /\ tasks[1].st = "done"
    /\ tasks[2].calls = 1
    /\ tasks[3].st = "done"
    /\ tasks[1].seen = Some([max_width |-> 120, tab_spaces |-> 3])
    /\ tasks[2].seen = Some([max_width |-> 120, tab_spaces |-> 3])
    /\ tasks[3].seen = Some([max_width |-> 120, tab_spaces |-> 3])

\* ------------------------------------------------------------------ C16
\* C16: the pattern evaluated is the input followed by "/**/*.rs" for an existing
\* directory, so that the candidates of every nesting depth are entries (an
\* unreadable directory among them as its path and then its enumeration error), and
\* the input itself otherwise, a path without readable metadata included: the
\* pattern "src/*.rs" gives the top-level candidate alone, as a path.
C16_ExpansionRule ==
    /\ glob_pattern # "" =>
          glob_pattern = CASE args.input_pattern = "src" -> "src/**/*.rs"
                           [] args.input_pattern = "d[" -> "d[/**/*.rs"
                           [] OTHER -> args.input_pattern
    /\ (Dispatched /\ args.input_pattern = "src") => EntriesOfEveryDepth
    /\ (Dispatched /\ args.input_pattern = "src/*.rs") =>
          file_paths = IF fsEntries = <<>> THEN <<>> ELSE <<PathEntry("src/f1.rs")>>
    /\ (Dispatched /\ args.input_pattern = "missing.rs") => file_paths = <<>>

\* Three levels deep: a file, an unreadable directory below it and a file below that.
C16_Witness ==
    /\ pc = "done"
    /\ args.input_pattern = "src"
    /\ glob_pattern = "src/**/*.rs"
    /\ file_paths = <<PathEntry("src/f1.rs"),
                      PathEntry("src/m2/f2.rs"),
                      [kind |-> "glob_error", path |-> "src/m2/f2.rs"],
                      PathEntry("src/m2/m3/f3.rs")>>
    /\ files["src/m2/m3/f3.rs"] = FormattedText

\* ------------------------------------------------------------------ C17
\* The input's pattern is valid and matches nothing.
MatchesNothing ==
    \/ args.input_pattern = "missing.rs"
    \/ args.input_pattern \in {"src", "src/*.rs"} /\ fsEntries = <<>>

\* C17: a valid pattern without matches is no error: the run dispatches nothing,
\* writes nothing, prints no per-file line, can always go on to the summary, and
\* ends with the summary of 0 files and main's return.
C17_EmptyBatch ==
    /\ (MatchesNothing /\ settings # None /\ pc # "expand") =>
          /\ pc \in {"for_each", "done"}
          /\ file_paths = <<>>
          /\ total_files = 0
    /\ (Dispatched /\ file_paths = <<>>) =>
          /\ tasks = <<>>
          /\ \A f \in Candidates : files[f] = OriginalText \/ f \in foreign
          /\ PerFileLines = {}
          /\ pc = "for_each" => ENABLED Join
          /\ pc # "batch_panic"
          /\ pc = "done" => out[Len(out)] = Line("summary", "", "", 0)

C17_Witness ==
    /\ pc = "done"
    /\ args.input_pattern = "missing.rs"
    /\ glob_pattern = "missing.rs"
    /\ out[Len(out)] = Line("summary", "", "", 0)
    /\ Untouched

\* ------------------------------------------------------------------ C18
DefaultsWithOverrides ==
    [max_width |-> IF args.max_width # None THEN args.max_width[1] ELSE 100,
     tab_spaces |-> IF args.tab_spaces # None THEN args.tab_spaces[1] ELSE 4]
\* Some probe find_config made failed with an access error.
ProbeFailed == \E k \in 1..Len(probed) : tomlAt[Len(probed[k]) - 1] = "error"
DiscoveryOver == args.config_file = None /\ pc \notin {"start", "find_config"}

\* C18 as claimed: when the working directory cannot be obtained or a probe fails,
\* discovery yields none and the run proceeds with the defaults and the overrides.
C18_AccessErrorsMeanNone ==
    (DiscoveryOver /\ (~cwd.ok \/ ProbeFailed)) =>
        /\ discovered = None
        /\ pc # "returned"
        /\ pc # "load" => settings = Some(DefaultsWithOverrides)

\* C18 amended: no access error in find_config ends the run; without a working
\* directory discovery yields none; a failed probe reads as no config file in that
\* directory and the walk goes on to the parent, so the result is the nearest
\* leptosfmt.toml that is a file, and none, hence the defaults and the overrides,
\* when there is no such file.
C18_AccessErrorsTolerated ==
    /\ (args.config_file = None /\ ~cwd.ok) =>
          /\ probed = <<>>
          /\ discovered = None
          /\ pc \notin {"find_config", "returned"}
          /\ pc \notin {"start", "load"} => settings = Some(DefaultsWithOverrides)
    /\ (Discovering /\ pc = "find_config") =>
          \A k \in 1..Len(probed) : tomlAt[Len(probed[k]) - 1] \in {"error", "absent"}
    /\ (DiscoveryOver /\ cwd.ok) =>
          /\ \A k \in 1..Len(probed) :
                tomlAt[Len(probed[k]) - 1] = "error" => (k < Len(probed) \/ k = Depth + 1)
          /\ IF ConfigDepths = {}
             THEN /\ discovered = None
                  /\ Len(probed) = Depth + 1
                  /\ pc # "returned"
                  /\ pc # "load" => settings = Some(DefaultsWithOverrides)
             ELSE /\ discovered = Some(display(Append(SubSeq(cwd.path, 1, Nearest), ConfigName)))
                  /\ pc = "returned" => discoveredContent # "toml"

C18_Witness ==
    /\ Discovering
    /\ Depth = 2
    /\ tomlAt[2] = "error"
    /\ tomlAt[1] = "file"
    /\ ProbeFailed
    /\ pc = "expand"
    /\ discovered = Some("/d1/leptosfmt.toml")
    /\ settings = Some([max_width |-> 80, tab_spaces |-> 8])

\* ------------------------------------------------------------------ C19
\* What the entries, the engine and the disk alone determine, when every task runs:
\* the message of an entry's failure (none for a success and for a panic that escapes
\* its task), the per-file line of an entry and the final content of a candidate file.
MessageOf(i) ==
    LET e == file_paths[i]
        r == EngineResult(i)
    IN CASE e.kind = "glob_error" -> <<"Permission denied">>
         [] r = "error" -> <<"unexpected token">>
         [] r = "panic_string" -> <<"index out of bounds">>
         [] r = "panic_str" -> <<>>
         [] r = "unreadable" -> <<"Permission denied">>
         [] disk[e.path] = "readonly" -> <<"Permission denied">>
         [] disk[e.path] \in Limits -> <<"File too large">>
         [] OTHER -> <<>>
OutcomeOf(i) ==
    LET e == file_paths[i] IN
    CASE MessageOf(i) # <<>> -> <<Line("fail", e.path, "", 0)>>
      [] EngineResult(i) = "panic_str" /\ e.kind = "path" -> <<>>
      [] OTHER -> <<Line("ok", e.path, "", 0)>>
Messages == {"Permission denied", "unexpected token", "index out of bounds", "File too large"}
ContentOf(f) ==
    IF \E i \in DOMAIN file_paths :
          /\ file_paths[i] = PathEntry(f)
          /\ engine[f] = "text"
    THEN CASE disk[f] = "writable" -> FormattedText
           [] disk[f] = "readonly" -> OriginalText
           [] OTHER -> [k \in 1..Accepted(disk[f]) |-> FormattedText[k]]
    ELSE OriginalText

C19_OtherOrder ==
    /\ BatchEnded
    /\ Len(file_paths) = 3
    /\ EscapingPanic(2)
    /\ engine[FilePath(3)] = "text"
    /\ disk[FilePath(3)] = "writable"
    /\ LeafOf(3) = <<3, 3>>
    /\ tasks[3].st = "done"
    /\ files[FilePath(3)] = FormattedText
    /\ CountKind("ok") = 2

\* The same entries, engine and disk where the third entry shares a sequential run
\* with the second: the panic drops it, and it is neither formatted nor reported.
C19_Dropped ==
    /\ BatchEnded
    /\ Len(file_paths) = 3
    /\ EscapingPanic(2)
    /\ engine[FilePath(3)] = "text"
    /\ disk[FilePath(3)] = "writable"
    /\ LeafOf(3) = <<2, 3>>
    /\ tasks[3].st = "skipped"
    /\ files[FilePath(3)] = OriginalText
    /\ CountKind("ok") = 1

\* ------------------------------------------------------------------ C20
SettingsPhase == pc \in {"start", "find_config", "load"}
\* The number of entries a pattern gives for the tree as it was before the batch.
CountEnumerated ==
    CASE args.input_pattern = "src" -> Len(fsEntries) + Cardinality(Dirs)
      [] args.input_pattern = "src/*.rs" -> IF fsEntries = <<>> THEN 0 ELSE 1
      [] OTHER -> 0

\* C20: nothing of the expansion exists while settings are being resolved, and the
\* notice precedes every later line; the entries and their count are fixed when the
\* first task can run, and are those of the tree as it was before the batch; the
\* summary carries that count, whatever was written, added, removed or rewritten
\* during the batch.
C20_PhaseOrdering ==
    /\ SettingsPhase =>
          /\ settings = None
          /\ glob_pattern = ""
          /\ total_files = 0
          /\ NoBatchEffects
    /\ ~Dispatched => (created = 0 /\ absent = {} /\ foreign = {})
    /\ glob_pattern # "" => settings # None /\ ~SettingsPhase
    /\ \A j, k \in 1..Len(out) :
          (out[j].kind = "notice" /\ out[k].kind \in {"ok", "fail", "diag", "summary"}) => j < k
    /\ (tasks # <<>> \/ ~Untouched \/ PerFileLines # {}) => Dispatched
    /\ Dispatched =>
          /\ total_files = Len(file_paths)
          /\ Len(tasks) = Len(file_paths)
          /\ Len(file_paths) = CountEnumerated
          /\ \A i \in DOMAIN file_paths : \A k \in 1..MaxChanges : file_paths[i].path # NewPath(k)
          /\ \A k \in DOMAIN fsEntries :
                args.input_pattern = "src" =>
                    \E i \in DOMAIN file_paths : file_paths[i] = PathEntry(fsEntries[k].path)
    /\ pc = "done" => out[Len(out)] = Line("summary", "", "", CountEnumerated)

\* A candidate removed by another process during the batch: its task fails, and the
\* summary still counts the three entries enumerated.
C20_Witness ==
    /\ pc = "done"
    /\ args.input_pattern = "src"
    /\ Len(fsEntries) = 3
    /\ absent = {FilePath(2)}
    /\ DiagLines("No such file or directory") # {}
    /\ files[FilePath(1)] = FormattedText
    /\ out[1].kind = "notice"
    /\ out[Len(out)] = Line("summary", "", "", 3)

====
